---- MODULE Spec2Model ----
(***************************************************************************)
(* scripts/scrub-repo.py: the repository scrubber / project rename tool.   *)
(*                                                                         *)
(* Text is a sequence of one-character strings, so the regular expressions *)
(* of the script are matched character by character.  Two atoms stand for  *)
(* bytes that are no printable character: NUL (the byte 0, which is valid  *)
(* UTF-8) and BAD (a byte that is not valid UTF-8).  All other characters  *)
(* are ASCII.                                                              *)
(***************************************************************************)
EXTENDS Integers, Sequences, FiniteSets, TLC

VARIABLES
    new_name,   \* args.to
    slug_arg,   \* args.slug ("" when omitted)
    disk,       \* the files: path |-> [data, readable, writable]
    tree,       \* the directories, each a sequence of names below the root
    run,        \* how many runs of the tool were started
    pc,         \* "idle", "walk", "write", "done", "aborted" or "killed"
    dry_run,    \* args.dry_run of the current run
    slug,       \* slug
    stack,      \* os.walk: the directories still to be yielded
    root,       \* os.walk: the directory of the current iteration
    fs,         \* the files of root the inner loop has not got to
    files,      \* the counter of changed files
    cur,        \* the write_text in progress
    reported,   \* the paths counted as changed in the current run
    visited,    \* the paths the inner loop has got to in the current run
    readPaths,  \* the paths the current run has opened for reading
    written,    \* the paths the current run has opened for writing
    snapshot,   \* disk as it was when the current run started
    last,       \* the texts of the file processed last
    hist,       \* one record per ended run
    pin,        \* input of the pure-function specifications
    pout        \* their output

argVars == <<new_name, slug_arg>>
walkVars == <<stack, root, fs>>
ghostVars == <<reported, visited, readPaths, written, snapshot, last, hist>>
runVars == <<disk, tree, run, pc, dry_run, slug, files, cur>>
pureVars == <<pin, pout>>
vars == <<argVars, runVars, walkVars, ghostVars, pureVars>>

(***************************************************************************)
(* Characters                                                              *)
(***************************************************************************)
UPPER == <<"A","B","C","D","E","F","G","H","I","J","K","L","M",
           "N","O","P","Q","R","S","T","U","V","W","X","Y","Z">>
LOWER == <<"a","b","c","d","e","f","g","h","i","j","k","l","m",
           "n","o","p","q","r","s","t","u","v","w","x","y","z">>
UpperLetters == {UPPER[i] : i \in DOMAIN UPPER}
LowerLetters == {LOWER[i] : i \in DOMAIN LOWER}
Digits == {"0","1","2","3","4","5","6","7","8","9"}
NUL == "NUL"
BAD == "BAD"
NL == "\n"
Whitespace == {" ", "\t", NL}

lowerMap == [c \in UpperLetters |-> LOWER[CHOOSE i \in DOMAIN UPPER : UPPER[i] = c]]

\* str.lower() on one character
Lower(c) == IF c \in UpperLetters THEN lowerMap[c] ELSE c

LowerSeq(s) == [i \in DOMAIN s |-> Lower(s[i])]

\* \w of a str pattern
WordChars == LowerLetters \cup UpperLetters \cup Digits \cup {"_"}
IsWord(c) == c \in WordChars

RECURSIVE LStrip(_, _)
LStrip(s, cs) == IF s # <<>> /\ Head(s) \in cs THEN LStrip(Tail(s), cs) ELSE s

RECURSIVE RStrip(_, _)
RStrip(s, cs) ==
    IF s # <<>> /\ s[Len(s)] \in cs THEN RStrip(SubSeq(s, 1, Len(s) - 1), cs) ELSE s

\* str.strip(chars)
Strip(s, cs) == RStrip(LStrip(s, cs), cs)

(***************************************************************************)
(* to_slug                                                                 *)
(***************************************************************************)
SlugChars == LowerLetters \cup Digits

\* re.sub(r"[^a-z0-9]+", "-", s): every maximal run of other characters
\* becomes one hyphen
RECURSIVE SubRuns(_, _)
SubRuns(s, inRun) ==
    IF s = <<>> THEN <<>>
    ELSE IF Head(s) \in SlugChars THEN <<Head(s)>> \o SubRuns(Tail(s), FALSE)
    ELSE IF inRun THEN SubRuns(Tail(s), TRUE)
    ELSE <<"-">> \o SubRuns(Tail(s), TRUE)

FallbackSlug == <<"a","p","p">>

\* a variant that strips the hyphens before the substitution, not after it
to_slug_stripFirst(name) ==
    LET s == SubRuns(Strip(LowerSeq(Strip(name, Whitespace)), {"-"}), FALSE)
    IN  IF s = <<>> THEN FallbackSlug ELSE s

to_slug(name) ==
    LET s == Strip(SubRuns(LowerSeq(Strip(name, Whitespace)), FALSE), {"-"})
    IN  IF s = <<>> THEN FallbackSlug ELSE s

\* slug = args.slug or to_slug(new_name)
ResolveSlug(name, arg) == IF arg # <<>> THEN arg ELSE to_slug(name)

(***************************************************************************)
(* The package.json name                                                   *)
(***************************************************************************)
NpmChars == LowerLetters \cup Digits \cup {"-", "_"}

\* re.match(r"^[a-z0-9][a-z0-9-_]*$", slug): "$" also matches before a
\* newline that ends the string
SlugMatches(sl) ==
    LET body == IF sl # <<>> /\ sl[Len(sl)] = NL
                THEN SubSeq(sl, 1, Len(sl) - 1) ELSE sl
    IN  /\ body # <<>>
        /\ body[1] \in SlugChars
        /\ \A i \in DOMAIN body : body[i] \in NpmChars

\* re.sub(r"[^a-z0-9-_]", "-", slug)
Sanitize(sl) == [i \in DOMAIN sl |-> IF sl[i] \in NpmChars THEN sl[i] ELSE "-"]

\* a variant that writes the slug as it is
NpmName_verbatim(sl) == sl

NpmName(sl) == IF SlugMatches(sl) THEN sl ELSE Sanitize(sl)

(***************************************************************************)
(* The substitution rules                                                  *)
(***************************************************************************)
Q == "\""
BSL == "\\"

W_one == <<"o","n","e">>
W_shot == <<"s","h","o","t">>
W_multi == <<"m","u","l","t","i">>
W_agent == <<"a","g","e","n","t">>
W_app == <<"a","p","p">>

\* A pattern is a sequence of character classes between two \b; under
\* re.IGNORECASE a class holds lower-case characters and is compared with
\* the lower-cased text.
Lit(w) == [i \in DOMAIN w |-> {w[i]}]
SepClass == <<{"-", " "}>>

P_title_multi == Lit(W_one) \o SepClass \o Lit(W_shot) \o Lit(<<" ">>) \o Lit(W_multi)
                   \o SepClass \o Lit(W_agent) \o Lit(<<" ">>) \o Lit(W_app)
P_title_app == Lit(W_one) \o SepClass \o Lit(W_shot) \o Lit(<<" ">>) \o Lit(W_app)
P_title == Lit(W_one) \o SepClass \o Lit(W_shot)
P_oneshot == Lit(W_one \o W_shot)
P_one_hyphen_shot == Lit(W_one \o <<"-">> \o W_shot)
P_one_underscore_shot == Lit(W_one \o <<"_">> \o W_shot)

DEFAULT_FROM_PATTERNS ==
    <<P_title_multi, P_title_app, P_title, P_oneshot, P_one_hyphen_shot, P_one_underscore_shot>>

\* slug.replace("-", "_")
Underscored(sl) == [i \in DOMAIN sl |-> IF sl[i] = "-" THEN "_" ELSE sl[i]]

\* mappings, as main() builds it
mappings(name, sl) ==
    [i \in DOMAIN DEFAULT_FROM_PATTERNS |-> [pat |-> DEFAULT_FROM_PATTERNS[i], repl |-> name]]
    \o <<[pat |-> P_oneshot, repl |-> sl],
         [pat |-> P_one_hyphen_shot, repl |-> sl],
         [pat |-> P_one_underscore_shot, repl |-> Underscored(sl)]>>

WordAt(text, i) == i \in DOMAIN text /\ IsWord(text[i])

\* \b between text[i-1] and text[i]
Boundary(text, i) == WordAt(text, i - 1) # WordAt(text, i)

MatchAt(pat, text, i) ==
    /\ i + Len(pat) - 1 <= Len(text)
    /\ Lower(text[i]) \in pat[1]
    /\ Boundary(text, i)
    /\ Boundary(text, i + Len(pat))
    /\ \A k \in DOMAIN pat : Lower(text[i + k - 1]) \in pat[k]

\* re.sub expands the replacement as a template first: a backslash before an
\* ASCII letter that is no escape (or at the end) raises re.error, match or
\* no match.  Replacements with valid escapes or group references are not
\* among the inputs here; without a backslash the template is the string.
TemplateEscapes == {"a", "b", "f", "g", "n", "r", "t", "v"}
TemplateError(repl) ==
    \E i \in DOMAIN repl :
        /\ repl[i] = BSL
        /\ \/ i = Len(repl)
           \/ repl[i + 1] \in (LowerLetters \cup UpperLetters) \ TemplateEscapes

\* the starts of the matches at or after position i
MatchesFrom(pat, text, i) == {j \in i .. Len(text) - Len(pat) + 1 : MatchAt(pat, text, j)}

\* re.sub(pat, repl, text, flags=re.IGNORECASE) from position i on: leftmost
\* matches, not overlapping, the replacement is not scanned again
RECURSIVE SubFrom(_, _, _, _)
SubFrom(pat, repl, text, i) ==
    IF \A j \in i .. Len(text) - Len(pat) + 1 : ~MatchAt(pat, text, j)
    THEN SubSeq(text, i, Len(text))
    ELSE LET ms == MatchesFrom(pat, text, i)
             m == CHOOSE j \in ms : \A h \in ms : j <= h
         IN  SubSeq(text, i, m - 1) \o repl \o SubFrom(pat, repl, text, m + Len(pat))

re_sub(pat, repl, text) == SubFrom(pat, repl, text, 1)

\* the rules from the k-th on, each on the result of the one before
RECURSIVE ApplyFrom(_, _, _)
ApplyFrom(text, maps, k) ==
    IF k > Len(maps) THEN text
    ELSE CHOOSE r \in {ApplyFrom(t, maps, k + 1) :
                          t \in {re_sub(maps[k].pat, maps[k].repl, text)}} : TRUE

\* replace_in_text: the rules in order, each on the result of the one before
replace_in_text(text, maps) == ApplyFrom(text, maps, 1)

\* replace_in_text raises
replace_raises(maps) == \E k \in DOMAIN maps : TemplateError(maps[k].repl)

(***************************************************************************)
(* JSON, as far as package.json needs it: a document is one value between  *)
(* optional whitespace; a value is a string without escapes, a number      *)
(* without sign, fraction or exponent, or an object whose members are such *)
(* strings and numbers.  Arrays, literals and nested objects are not among *)
(* the file contents here.  A parsed object is a sequence of members       *)
(* [k, v] with distinct keys, in the order a dict keeps them.              *)
(***************************************************************************)
JsonWs == {" ", "\t", NL, "\r"}
ControlChars == {NUL, NL, "\t", "\r"}
Fail == [ok |-> FALSE]

RECURSIVE SkipWs(_, _)
SkipWs(t, i) == IF i <= Len(t) /\ t[i] \in JsonWs THEN SkipWs(t, i + 1) ELSE i

\* the index of the quote that closes a string whose content starts at i,
\* 0 when a control character, a backslash or the end comes first
RECURSIVE StringEnd(_, _)
StringEnd(t, i) ==
    IF i > Len(t) THEN 0
    ELSE IF t[i] = Q THEN i
    ELSE IF t[i] \in ControlChars \cup {BSL} THEN 0
    ELSE StringEnd(t, i + 1)

ParseString(t, i) ==
    IF i > Len(t) \/ t[i] # Q THEN Fail
    ELSE LET e == StringEnd(t, i + 1)
         IN  IF e = 0 THEN Fail
             ELSE [ok |-> TRUE, next |-> e + 1,
                   val |-> [type |-> "str", v |-> SubSeq(t, i + 1, e - 1)]]

RECURSIVE DigitsEnd(_, _)
DigitsEnd(t, i) == IF i <= Len(t) /\ t[i] \in Digits THEN DigitsEnd(t, i + 1) ELSE i

ParseNumber(t, i) ==
    LET e == DigitsEnd(t, i)
    IN  IF e = i THEN Fail
        ELSE IF t[i] = "0" /\ e > i + 1 THEN [ok |-> TRUE, next |-> i + 1,
                                              val |-> [type |-> "num", v |-> <<"0">>]]
        ELSE [ok |-> TRUE, next |-> e, val |-> [type |-> "num", v |-> SubSeq(t, i, e - 1)]]

ParseScalar(t, i) ==
    IF i <= Len(t) /\ t[i] = Q THEN ParseString(t, i) ELSE ParseNumber(t, i)

\* d[k] = v on a dict: a key already there keeps its place
DictSet(d, k, v) ==
    IF \E i \in DOMAIN d : d[i].k = k
    THEN [i \in DOMAIN d |-> IF d[i].k = k THEN [k |-> k, v |-> v] ELSE d[i]]
    ELSE Append(d, [k |-> k, v |-> v])

DictHas(d, k) == \E i \in DOMAIN d : d[i].k = k
DictGet(d, k) == d[CHOOSE i \in DOMAIN d : d[i].k = k].v

\* the members from position i on (a key is expected at i), up to "}"
RECURSIVE ParseMembers(_, _, _)
ParseMembers(t, i, d) ==
    LET key == ParseString(t, i)
    IN  IF ~key.ok THEN Fail
        ELSE LET c == SkipWs(t, key.next)
             IN  IF c > Len(t) \/ t[c] # ":" THEN Fail
                 ELSE LET val == ParseScalar(t, SkipWs(t, c + 1))
                      IN  IF ~val.ok THEN Fail
                          ELSE LET d2 == DictSet(d, key.val.v, val.val)
                                   n == SkipWs(t, val.next)
                               IN  IF n > Len(t) THEN Fail
                                   ELSE IF t[n] = "}"
                                   THEN [ok |-> TRUE, next |-> n + 1,
                                         val |-> [type |-> "dict", v |-> d2]]
                                   ELSE IF t[n] = ","
                                   THEN ParseMembers(t, SkipWs(t, n + 1), d2)
                                   ELSE Fail

ParseValue(t, i) ==
    IF i > Len(t) THEN Fail
    ELSE IF t[i] = "{"
    THEN LET m == SkipWs(t, i + 1)
         IN  IF m <= Len(t) /\ t[m] = "}"
             THEN [ok |-> TRUE, next |-> m + 1, val |-> [type |-> "dict", v |-> <<>>]]
             ELSE ParseMembers(t, m, <<>>)
    ELSE ParseScalar(t, i)

\* json.loads(text): [ok |-> FALSE] when it raises
json_loads(t) ==
    LET r == ParseValue(t, SkipWs(t, 1))
    IN  IF ~r.ok THEN Fail
        ELSE IF SkipWs(t, r.next) <= Len(t) THEN Fail
        ELSE [ok |-> TRUE, val |-> r.val]

EscapeChar(c) ==
    IF c = Q THEN <<BSL, Q>>
    ELSE IF c = BSL THEN <<BSL, BSL>>
    ELSE IF c = NL THEN <<BSL, "n">>
    ELSE IF c = "\t" THEN <<BSL, "t">>
    ELSE IF c = "\r" THEN <<BSL, "r">>
    ELSE <<c>>

RECURSIVE EscapeSeq(_)
EscapeSeq(s) == IF s = <<>> THEN <<>> ELSE EscapeChar(Head(s)) \o EscapeSeq(Tail(s))

DumpScalar(v) == IF v.type = "str" THEN <<Q>> \o EscapeSeq(v.v) \o <<Q>> ELSE v.v

RECURSIVE Spaces(_)
Spaces(n) == IF n = 0 THEN <<>> ELSE <<" ">> \o Spaces(n - 1)

RECURSIVE DumpMembers(_, _, _)
DumpMembers(d, i, indent) ==
    IF i > Len(d) THEN <<>>
    ELSE Spaces(indent) \o <<Q>> \o EscapeSeq(d[i].k) \o <<Q, ":", " ">> \o DumpScalar(d[i].v)
         \o (IF i < Len(d) THEN <<",", NL>> ELSE <<NL>>)
         \o DumpMembers(d, i + 1, indent)

\* json.dumps(j, indent=n) of a dict
json_dumps(d, indent) ==
    IF d = <<>> THEN <<"{", "}">> ELSE <<"{", NL>> \o DumpMembers(d, 1, indent) \o <<"}">>

K_name == <<"n","a","m","e">>

\* isinstance(j, dict) and "name" in j and isinstance(j["name"], str)
HasStringName(j) ==
    /\ j.ok
    /\ j.val.type = "dict"
    /\ DictHas(j.val.v, K_name)
    /\ DictGet(j.val.v, K_name).type = "str"

\* a variant that leaves out the indentation
Serialize_compact(d) == json_dumps(d, 0) \o <<NL>>

\* s2 = json.dumps(j, indent=2) + "\n"
Serialize(d) == json_dumps(d, 2) \o <<NL>>

\* the package.json special case: the text after it (json.loads raising, or
\* another shape, leaves the substituted text)
PatchManifest(s2, sl) ==
    LET j == json_loads(s2)
    IN  IF HasStringName(j)
        THEN Serialize(DictSet(j.val.v, K_name, [type |-> "str", v |-> NpmName(sl)]))
        ELSE s2

(***************************************************************************)
(* The file system and the text classifier                                 *)
(***************************************************************************)
\* directory names are compared as wholes only
EXCLUDE_DIRS ==
    {".git", "node_modules", ".next", "dist", "build", ".cache", ".turbo",
     ".venv", "__pycache__", "coverage", ".idea", ".vscode", ".pnpm-store"}

TEXT_EXTS ==
    {<<".","j","s">>,
     <<".","j","s","x">>,
     <<".","t","s">>,
     <<".","t","s","x">>,
     <<".","m","j","s">>,
     <<".","c","j","s">>,
     <<".","j","s","o","n">>,
     <<".","m","d">>,
     <<".","y","m","l">>,
     <<".","y","a","m","l">>,
     <<".","s","h">>,
     <<".","e","n","v">>,
     <<".","e","n","v",".","e","x","a","m","p","l","e">>,
     <<".","s","q","l">>,
     <<".","p","r","i","s","m","a">>,
     <<".","c","s","s">>,
     <<".","h","t","m","l">>,
     <<".","t","x","t">>,
     <<".","i","n","i">>,
     <<".","c","o","n","f">>,
     <<".","D","o","c","k","e","r","f","i","l","e">>,
     <<".","g","i","t","i","g","n","o","r","e">>,
     <<".","g","i","t","a","t","t","r","i","b","u","t","e","s">>,
     <<".","g","r","a","p","h","q","l">>,
     <<".","p","r","o","t","o">>,
     <<".","t","o","m","l">>}

TEXT_NAMES == {<<"D","o","c","k","e","r","f","i","l","e">>, <<"M","a","k","e","f","i","l","e">>}

PACKAGE_JSON == <<"p","a","c","k","a","g","e",".","j","s","o","n">>

SniffLen == 1024

\* Path.suffix
Suffix(name) ==
    LET dots == {i \in DOMAIN name : name[i] = "."}
    IN  IF dots = {} THEN <<>>
        ELSE LET i == CHOOSE k \in dots : \A m \in dots : m <= k
             IN  IF 1 < i /\ i < Len(name) THEN SubSeq(name, i, Len(name)) ELSE <<>>

AllowListed(name) == Suffix(name) \in TEXT_EXTS \/ name \in TEXT_NAMES

\* p.read_bytes()[:1024] holds a null byte
NulInHead(data) == \E i \in DOMAIN data : i <= SniffLen /\ data[i] = NUL

\* a variant that takes every file it can read for text
is_text_file_noSniff(f, name) == AllowListed(name) \/ f.readable

\* is_text_file(p), f being the file at p
is_text_file(f, name) ==
    IF AllowListed(name) THEN TRUE
    ELSE IF ~f.readable THEN FALSE
    ELSE ~NulInHead(f.data)

\* is_text_file(p) reads the file
Sniffs(name) == ~AllowListed(name)

\* p.read_text(encoding="utf-8") raises
read_text_raises(f) == ~f.readable \/ \E i \in DOMAIN f.data : f.data[i] = BAD

\* a variant that descends into every directory
Prune_none(dirs) == dirs

\* dirs[:] = [d for d in dirs if d not in EXCLUDE_DIRS]
Prune(dirs) == {d \in dirs : d \notin EXCLUDE_DIRS}

\* what os.walk lists in directory r
SubdirNames(r) ==
    {d[Len(d)] : d \in {x \in tree : Len(x) = Len(r) + 1 /\ SubSeq(x, 1, Len(r)) = r}}
FilesIn(r) == {p \in DOMAIN disk : p.dir = r}

Orders(S) == {o \in [1 .. Cardinality(S) -> S] : \A x \in S : \E i \in DOMAIN o : o[i] = x}

BufferSize == 16

\* a variant that takes the write for complete after the first flush
WriteComplete_early(data, n) == TRUE

\* the text layer has handed all of data to the file
WriteComplete(data, n) == n >= Len(data)

NoCur == [path |-> "none"]
NoLast == [path |-> "none"]
NoRoot == <<"none">>

RunRecord(outcome, n, paths, d) ==
    [dry |-> dry_run, outcome |-> outcome, files |-> n, paths |-> paths,
     before |-> snapshot, after |-> d, wrote |-> written]

(***************************************************************************)
(* main(): one action per step of a run                                    *)
(***************************************************************************)
MaxRuns == 2

\* the tool is started: the arguments are parsed, slug and mappings are built
StartRun(dry) ==
    /\ pc \in {"idle", "done", "aborted"}
    /\ run < MaxRuns
    /\ run' = run + 1
    /\ pc' = "walk"
    /\ dry_run' = dry
    /\ slug' = ResolveSlug(new_name, slug_arg)
    /\ files' = 0
    /\ stack' = << <<>> >>
    /\ root' = NoRoot
    /\ fs' = {}
    /\ cur' = NoCur
    /\ reported' = {}
    /\ visited' = {}
    /\ readPaths' = {}
    /\ written' = {}
    /\ snapshot' = disk
    /\ last' = NoLast
    /\ UNCHANGED <<argVars, disk, tree, hist, pureVars>>

\* the next iteration of "for root, dirs, fs in os.walk(repo)", with the prune
WalkDir ==
    /\ pc = "walk"
    /\ fs = {}
    /\ stack # <<>>
    /\ LET r == Head(stack)
       IN  /\ root' = r
           /\ fs' = FilesIn(r)
           /\ \E o \in Orders(Prune(SubdirNames(r))) :
                  stack' = [i \in DOMAIN o |-> Append(r, o[i])] \o Tail(stack)
    /\ UNCHANGED <<argVars, runVars, ghostVars, pureVars>>

\* "for f in fs" gets to p
Visit(p) ==
    /\ pc = "walk"
    /\ p \in fs
    /\ fs' = fs \ {p}
    /\ visited' = visited \cup {p}

\* "if not is_text_file(p): continue"
SkipNotText(p) ==
    /\ Visit(p)
    /\ ~is_text_file(disk[p], p.name)
    /\ readPaths' = IF Sniffs(p.name) THEN readPaths \cup {p} ELSE readPaths
    /\ last' = NoLast
    /\ UNCHANGED <<argVars, runVars, stack, root, reported, written, snapshot, hist, pureVars>>

\* read_text raises: "except Exception: continue"
SkipUndecodable(p) ==
    /\ Visit(p)
    /\ is_text_file(disk[p], p.name)
    /\ read_text_raises(disk[p])
    /\ readPaths' = readPaths \cup {p}
    /\ last' = NoLast
    /\ UNCHANGED <<argVars, runVars, stack, root, reported, written, snapshot, hist, pureVars>>

Decoded(p) == is_text_file(disk[p], p.name) /\ ~read_text_raises(disk[p])

\* replace_in_text raises re.error, which nothing catches
SubstitutionRaises(p) ==
    /\ Visit(p)
    /\ Decoded(p)
    /\ replace_raises(mappings(new_name, slug))
    /\ readPaths' = readPaths \cup {p}
    /\ last' = NoLast
    /\ pc' = "aborted"
    /\ hist' = Append(hist, RunRecord("aborted", files, reported, disk))
    /\ UNCHANGED <<argVars, disk, tree, run, dry_run, slug, files, cur, stack, root,
                   reported, written, snapshot, pureVars>>

Processed(p) == Decoded(p) /\ ~replace_raises(mappings(new_name, slug))

\* orig, s2 after replace_in_text, s2 at the comparison
TextsOf(p) ==
    LET sub == replace_in_text(disk[p].data, mappings(new_name, slug))
    IN  [path |-> p, orig |-> disk[p].data, sub |-> sub,
         final |-> IF p.name = PACKAGE_JSON THEN PatchManifest(sub, slug) ELSE sub]

\* s2 == orig
LeaveUnchanged(p) ==
    /\ Visit(p)
    /\ Processed(p)
    /\ LET t == TextsOf(p)
       IN  /\ t.final = t.orig
           /\ last' = t
    /\ readPaths' = readPaths \cup {p}
    /\ UNCHANGED <<argVars, runVars, stack, root, reported, written, snapshot, hist, pureVars>>

\* s2 != orig under --dry-run: counted and printed
ReportDryRun(p) ==
    /\ Visit(p)
    /\ dry_run
    /\ Processed(p)
    /\ LET t == TextsOf(p)
       IN  /\ t.final # t.orig
           /\ last' = t
    /\ files' = files + 1
    /\ reported' = reported \cup {p}
    /\ readPaths' = readPaths \cup {p}
    /\ UNCHANGED <<argVars, disk, tree, run, pc, dry_run, slug, cur, stack, root,
                   written, snapshot, hist, pureVars>>

\* s2 != orig: counted, and write_text opens the file, which truncates it
OpenForWrite(p) ==
    /\ Visit(p)
    /\ ~dry_run
    /\ disk[p].writable
    /\ Processed(p)
    /\ LET t == TextsOf(p)
       IN  /\ t.final # t.orig
           /\ last' = t
           /\ cur' = [path |-> p, data |-> t.final]
    /\ files' = files + 1
    /\ reported' = reported \cup {p}
    /\ readPaths' = readPaths \cup {p}
    /\ written' = written \cup {p}
    /\ disk' = [disk EXCEPT ![p].data = <<>>]
    /\ pc' = "write"
    /\ UNCHANGED <<argVars, tree, run, dry_run, slug, stack, root, snapshot, hist, pureVars>>

\* s2 != orig: counted, and write_text raises, which nothing catches
WriteRaises(p) ==
    /\ Visit(p)
    /\ ~dry_run
    /\ ~disk[p].writable
    /\ Processed(p)
    /\ LET t == TextsOf(p)
       IN  /\ t.final # t.orig
           /\ last' = t
    /\ readPaths' = readPaths \cup {p}
    /\ written' = written \cup {p}
    /\ files' = files + 1
    /\ reported' = reported \cup {p}
    /\ pc' = "aborted"
    /\ hist' = Append(hist, RunRecord("aborted", files + 1, reported \cup {p}, disk))
    /\ UNCHANGED <<argVars, disk, tree, run, dry_run, slug, cur, stack, root, snapshot, pureVars>>

\* write_text: the next BufferSize characters reach the file; after the last
\* of them the file is closed and the loop goes on
FlushWrite ==
    /\ pc = "write"
    /\ LET have == Len(disk[cur.path].data)
           upto == IF have + BufferSize < Len(cur.data) THEN have + BufferSize ELSE Len(cur.data)
       IN  /\ disk' = [disk EXCEPT ![cur.path].data = SubSeq(cur.data, 1, upto)]
           /\ IF WriteComplete(cur.data, upto)
              THEN pc' = "walk" /\ cur' = NoCur
              ELSE UNCHANGED <<pc, cur>>
    /\ UNCHANGED <<argVars, tree, run, dry_run, slug, files, walkVars, ghostVars, pureVars>>

\* the walk is over: the summary is printed
Summary ==
    /\ pc = "walk"
    /\ fs = {}
    /\ stack = <<>>
    /\ pc' = "done"
    /\ hist' = Append(hist, RunRecord("done", files, reported, disk))
    /\ UNCHANGED <<argVars, disk, tree, run, dry_run, slug, files, cur, walkVars,
                   reported, visited, readPaths, written, snapshot, last, pureVars>>

\* the process is killed
Kill ==
    /\ pc \in {"walk", "write"}
    /\ pc' = "killed"
    /\ hist' = Append(hist, RunRecord("killed", files, reported, disk))
    /\ UNCHANGED <<argVars, disk, tree, run, dry_run, slug, files, cur, walkVars,
                   reported, visited, readPaths, written, snapshot, last, pureVars>>

Next ==
    \/ \E dry \in BOOLEAN : StartRun(dry)
    \/ WalkDir
    \/ \E p \in DOMAIN disk : SkipNotText(p)
    \/ \E p \in DOMAIN disk : SkipUndecodable(p)
    \/ \E p \in DOMAIN disk : SubstitutionRaises(p)
    \/ \E p \in DOMAIN disk : LeaveUnchanged(p)
    \/ \E p \in DOMAIN disk : ReportDryRun(p)
    \/ \E p \in DOMAIN disk : OpenForWrite(p)
    \/ \E p \in DOMAIN disk : WriteRaises(p)
    \/ FlushWrite
    \/ Summary
    \/ Kill

(***************************************************************************)
(* The repositories and arguments of the runs                              *)
(***************************************************************************)
N_a_txt == <<"a",".","t","x","t">>
N_notes == <<"n","o","t","e","s">>
N_c_bin == <<"c",".","b","i","n">>
N_c_json == <<"c",".","j","s","o","n">>
N_package_json_bak == <<"p","a","c","k","a","g","e",".","j","s","o","n",".","b","a","k">>
\* the slug-style tokens
T_slugs == <<"o","n","e","s","h","o","t"," ","o","n","e","_","s","h","o","t"," ","o","n","e","-","s","h","o","t">>
\* a title token followed by the second word of one
T_chain == <<"O","n","e"," ","S","h","o","t"," ","S","h","o","t">>
T_title == <<"O","n","e","-","S","h","o","t"," ","A","p","p">>
T_plain == <<"h","e","l","l","o">>
\* a null byte, then matchable text
B_nul == <<NUL,"o","n","e","s","h","o","t">>
\* a byte that is not UTF-8, then matchable text
B_bad == <<BAD,"o","n","e","s","h","o","t">>
J_spec == <<"{",Q,"n","a","m","e",Q,":",Q,"o","n","e","-","s","h","o","t","-","a","p","p",Q,",",Q,"v","e","r","s","i","o","n",Q,":",Q,"1",".","0",".","0",Q,"}">>
J_other == <<"{",Q,"n","a","m","e",Q,":"," ",Q,"z","z","z",Q,","," ",Q,"v",Q,":"," ",Q,"o","n","e","s","h","o","t",Q,"}">>
J_number == <<"{",Q,"n","a","m","e",Q,":","7",",",Q,"v",Q,":",Q,"o","n","e","s","h","o","t",Q,"}">>
J_broken == <<"{",Q,"n","a","m","e",Q,":",Q,"o","n","e","s","h","o","t",Q>>
A_acme == <<"A","c","m","e"," ","R","o","c","k","e","t"," ","A","p","p">>
A_one == <<"o","n","e">>
A_escape == <<"a",BSL,"q">>
S_Foo == <<"F","o","o">>

File(data, r, w) == [data |-> data, readable |-> r, writable |-> w]
Path(dir, name) == [dir |-> dir, name |-> name]

\* what the file in the root directory may be
RootFiles ==
    {<<N_a_txt, File(T_slugs, TRUE, TRUE)>>,
     <<N_a_txt, File(T_slugs, TRUE, FALSE)>>,
     <<N_a_txt, File(T_chain, TRUE, TRUE)>>,
     <<N_a_txt, File(T_plain, TRUE, TRUE)>>,
     <<N_a_txt, File(B_bad, TRUE, TRUE)>>,
     <<N_notes, File(T_title, TRUE, TRUE)>>,
     <<N_notes, File(T_title, FALSE, TRUE)>>,
     <<N_c_bin, File(B_nul, TRUE, TRUE)>>,
     <<N_c_json, File(B_nul, TRUE, TRUE)>>,
     <<PACKAGE_JSON, File(J_spec, TRUE, TRUE)>>,
     <<PACKAGE_JSON, File(J_other, TRUE, TRUE)>>,
     <<PACKAGE_JSON, File(J_number, TRUE, TRUE)>>,
     <<PACKAGE_JSON, File(J_broken, TRUE, TRUE)>>,
     <<N_package_json_bak, File(J_spec, TRUE, TRUE)>>}

\* what the file one directory down may be
SubFiles ==
    {<<N_a_txt, File(T_slugs, TRUE, TRUE)>>,
     <<N_c_bin, File(B_nul, TRUE, TRUE)>>,
     <<PACKAGE_JSON, File(J_other, TRUE, TRUE)>>}

\* what the file two directories down may be
DeepFiles ==
    {<<N_a_txt, File(T_title, TRUE, TRUE)>>,
     <<N_a_txt, File(T_plain, TRUE, TRUE)>>}

\* --to and --slug
RunArgs == {<<A_acme, <<>> >>, <<A_one, <<>> >>, <<A_escape, <<>> >>, <<A_acme, S_Foo>>}

IdleRun ==
    /\ run = 0
    /\ pc = "idle"
    /\ dry_run = FALSE
    /\ slug = <<>>
    /\ files = 0
    /\ cur = NoCur
    /\ stack = <<>>
    /\ root = NoRoot
    /\ fs = {}
    /\ reported = {}
    /\ visited = {}
    /\ readPaths = {}
    /\ written = {}
    /\ last = NoLast
    /\ hist = <<>>

\* a root with one file and one directory, which holds one file and one
\* directory, which holds one file
Init ==
    /\ \E a \in RunArgs : new_name = a[1] /\ slug_arg = a[2]
    /\ \E d1 \in {"src", ".git"}, d2 \in {"lib", "build"},
          a \in RootFiles, b \in SubFiles, c \in DeepFiles :
        /\ tree = {<<>>, <<d1>>, <<d1, d2>>}
        /\ disk = (Path(<<>>, a[1]) :> a[2]) @@ (Path(<<d1>>, b[1]) :> b[2])
                  @@ (Path(<<d1, d2>>, c[1]) :> c[2])
    /\ snapshot = disk
    /\ IdleRun
    /\ pin = <<>>
    /\ pout = [op |-> "none"]

Spec == Init /\ [][Next]_vars

(***************************************************************************)
(* Pure-function specification: the slug deriver and the manifest name     *)
(***************************************************************************)
MaxNameLen == 4

NameAlphabet == {"a", "B", "7", " ", "-", "_", "!", NL}

RECURSIVE StringsUpTo(_, _)
StringsUpTo(cs, n) ==
    IF n = 0 THEN {<<>>}
    ELSE LET shorter == StringsUpTo(cs, n - 1)
         IN  shorter \cup {Append(s, c) : s \in shorter, c \in cs}

NameInputs == StringsUpTo(NameAlphabet, MaxNameLen)

NoOut == [op |-> "none"]

\* either the slug is derived from any name, or any explicit --slug is given
InitSlug ==
    /\ \/ new_name \in NameInputs /\ slug_arg = <<>>
       \/ new_name = <<"A", "c", "m", "e">> /\ slug_arg \in NameInputs
    /\ pin = <<>>
    /\ pout = NoOut
    /\ disk = <<>>
    /\ tree = {<<>>}
    /\ snapshot = disk
    /\ IdleRun

\* slug = args.slug or to_slug(new_name); to_slug applied to its own result
DeriveSlug ==
    /\ pout.op = "none"
    /\ pout' = [op |-> "slug", derived |-> to_slug(new_name),
                again |-> to_slug(to_slug(new_name)),
                slug |-> ResolveSlug(new_name, slug_arg)]
    /\ UNCHANGED <<argVars, runVars, walkVars, ghostVars, pin>>

\* j["name"] = ...
PatchName ==
    /\ pout.op = "slug"
    /\ pout' = [op |-> "name", slug |-> pout.slug, name |-> NpmName(pout.slug)]
    /\ UNCHANGED <<argVars, runVars, walkVars, ghostVars, pin>>

NextSlug == DeriveSlug \/ PatchName

SpecSlug == InitSlug /\ [][NextSlug]_vars

(***************************************************************************)
(* Pure-function specification: the rule sequence on one text              *)
(***************************************************************************)
MaxTokens == 4

RuleTokens ==
    {W_one, <<"O","n","e">>, W_shot, <<"S","h","o","t">>, <<"-">>, <<" ">>, <<"_">>, <<"x">>}

RECURSIVE Flatten(_)
Flatten(ts) == IF ts = <<>> THEN <<>> ELSE Head(ts) \o Flatten(Tail(ts))

RuleTexts == {Flatten(ts) : ts \in StringsUpTo(RuleTokens, MaxTokens)}

RuleArgs == {<<A_acme, <<>> >>, <<A_one, <<>> >>, <<A_acme, S_Foo>>}

InitRules ==
    /\ \E a \in RuleArgs : new_name = a[1] /\ slug_arg = a[2]
    /\ pin \in RuleTexts
    /\ pout = NoOut
    /\ disk = <<>>
    /\ tree = {<<>>}
    /\ snapshot = disk
    /\ IdleRun

\* s2 = replace_in_text(s, mappings)
ApplyRules ==
    /\ pout.op = "none"
    /\ LET sl == ResolveSlug(new_name, slug_arg)
       IN  pout' = [op |-> "rules", slug |-> sl,
                    text |-> replace_in_text(pin, mappings(new_name, sl))]
    /\ UNCHANGED <<argVars, runVars, walkVars, ghostVars, pin>>

NextRules == ApplyRules

SpecRules == InitRules /\ [][NextRules]_vars

(***************************************************************************)
(* Properties                                                              *)
(***************************************************************************)
IdentifierSafe(n) ==
    /\ n # <<>>
    /\ n[1] \in LowerLetters \cup Digits
    /\ \A i \in DOMAIN n : n[i] \in LowerLetters \cup Digits \cup {"-", "_"}

\* some old-name pattern matches somewhere in the text
HasOldToken(text) ==
    \E p \in DOMAIN DEFAULT_FROM_PATTERNS, i \in DOMAIN text :
        MatchAt(DEFAULT_FROM_PATTERNS[p], text, i)

IsPrefix(a, b) == Len(a) <= Len(b) /\ a = SubSeq(b, 1, Len(a))

UnderExcluded(p) == \E i \in DOMAIN p.dir : p.dir[i] \in EXCLUDE_DIRS

\* what the tool makes of the content a file had when the run started
ExpectedContent(p) ==
    LET s2 == replace_in_text(snapshot[p].data, mappings(new_name, slug))
    IN  IF p.name = PACKAGE_JSON THEN PatchManifest(s2, slug) ELSE s2



\* C1: a text that is one slug-style old token, in any case, comes out of the
\* rule sequence as the slug form: oneshot and one-shot as the slug, one_shot
\* as the slug with its hyphens turned into underscores.
C1_SlugTokenBecomesSlug ==
    pout.op = "rules" =>
        /\ LowerSeq(pin) = W_one \o W_shot => pout.text = pout.slug
        /\ LowerSeq(pin) = W_one \o <<"-">> \o W_shot => pout.text = pout.slug
        /\ LowerSeq(pin) = W_one \o <<"_">> \o W_shot => pout.text = Underscored(pout.slug)

\* C2: when neither the new name nor the slug holds an old token, the second
\* of two real runs that both reach the summary counts no changed file and
\* opens no file for writing.
C2_SecondRunChangesNothing ==
    \A k \in DOMAIN hist :
        (/\ k + 1 \in DOMAIN hist
         /\ ~hist[k].dry /\ ~hist[k + 1].dry
         /\ hist[k].outcome = "done" /\ hist[k + 1].outcome = "done"
         /\ ~HasOldToken(new_name) /\ ~HasOldToken(slug))
        => hist[k + 1].files = 0 /\ hist[k + 1].wrote = {}

\* C3: a dry run leaves every file as it was, and a real run started from the
\* same state counts the same files as changed as the dry run did.
C3_DryRunCountsAsRealRun ==
    /\ (pc # "idle" /\ dry_run) => disk = snapshot
    /\ \A k \in DOMAIN hist :
        (/\ k + 1 \in DOMAIN hist
         /\ hist[k].dry /\ ~hist[k + 1].dry
         /\ hist[k].outcome # "killed" /\ hist[k + 1].outcome # "killed"
         /\ hist[k].before = hist[k + 1].before)
        => hist[k].files = hist[k + 1].files /\ hist[k].paths = hist[k + 1].paths

\* C4 as stated: a file with a null byte in its first 1024 bytes is never
\* opened for writing, whatever its name.
C4_NulFileNeverWritten ==
    \A p \in DOMAIN disk : NulInHead(snapshot[p].data) => p \notin written

\* C4 as amended: a file whose name is not on the allow-list and whose first
\* 1024 bytes hold a null byte is never opened for writing and keeps its bytes.
C4_SniffedNulFileNeverWritten ==
    \A p \in DOMAIN disk :
        (~AllowListed(p.name) /\ NulInHead(snapshot[p].data))
        => p \notin written /\ disk[p].data = snapshot[p].data

C4_Witness ==
    /\ pc = "done"
    /\ ~dry_run
    /\ written # {}
    /\ \E p \in visited :
        /\ ~AllowListed(p.name)
        /\ NulInHead(snapshot[p].data)
        /\ HasOldToken(snapshot[p].data)

\* C5: a file below a directory whose name is in the exclusion set is never
\* got to, read, written or counted, and the walk never enters such a
\* directory.
C5_ExcludedNeverTouched ==
    /\ \A p \in DOMAIN disk :
        UnderExcluded(p) =>
            /\ p \notin visited \cup readPaths \cup written \cup reported
            /\ disk[p] = snapshot[p]
    /\ \A i \in DOMAIN root : root[i] \notin EXCLUDE_DIRS
    /\ \A k \in DOMAIN stack : \A i \in DOMAIN stack[k] : stack[k][i] \notin EXCLUDE_DIRS

C5_Witness ==
    /\ pc = "done"
    /\ ~dry_run
    /\ written # {}
    /\ \E p \in DOMAIN disk :
        /\ Len(p.dir) = 2
        /\ p.dir[1] \notin EXCLUDE_DIRS
        /\ p.dir[2] \in EXCLUDE_DIRS
        /\ HasOldToken(disk[p].data)

\* C6: a run never ends by an exception that nothing catches.
C6_RunNeverAborts == pc # "aborted"

C8_ToSlugIdempotent == pout.op = "slug" => pout.again = pout.derived

C8_Witness ==
    /\ pout.op = "slug"
    /\ new_name = <<"-", "-", "-">>
    /\ pout.derived = FallbackSlug
    /\ pout.again = FallbackSlug

\* a text of lines: "{", members indented by two spaces, "}"
Indented2(body) ==
    /\ Len(body) >= 4
    /\ body[1] = "{" /\ body[2] = NL
    /\ body[Len(body)] = "}" /\ body[Len(body) - 1] = NL
    /\ \A i \in DOMAIN body :
        (body[i] = NL /\ i < Len(body) - 1)
        => body[i + 1] = " " /\ body[i + 2] = " " /\ body[i + 3] = Q

\* C9: for a package.json whose substituted text is an object with a string
\* name, the final text is that object with the name replaced (by the slug
\* when the slug is identifier-safe) and every other member as it was, in
\* lines indented by two spaces with one newline at the end; a real run that
\* has finished writing it left exactly this text in the file.
C9_ManifestRewritten ==
    (/\ last # NoLast
     /\ last.path.name = PACKAGE_JSON
     /\ HasStringName(json_loads(last.sub)))
    => LET j == json_loads(last.sub).val.v
           body == SubSeq(last.final, 1, Len(last.final) - 1)
           r == json_loads(last.final)
       IN  /\ last.final # <<>>
           /\ last.final[Len(last.final)] = NL
           /\ Indented2(body)
           /\ r.ok
           /\ r.val.type = "dict"
           /\ Len(r.val.v) = Len(j)
           /\ \A i \in DOMAIN j :
                /\ r.val.v[i].k = j[i].k
                /\ j[i].k # K_name => r.val.v[i].v = j[i].v
           /\ DictGet(r.val.v, K_name).type = "str"
           /\ IdentifierSafe(slug) => DictGet(r.val.v, K_name).v = slug
           /\ (~dry_run /\ pc \in {"walk", "done"} /\ last.path \in written)
              => disk[last.path].data = last.final

C9_Witness ==
    /\ last # NoLast
    /\ last.path.name = PACKAGE_JSON
    /\ last.orig = J_other
    /\ ~dry_run
    /\ pc = "walk"
    /\ last.path \in written
    /\ disk[last.path].data # last.orig
    /\ IdentifierSafe(slug)

\* C10 as stated: when a real run is killed, every file holds its whole
\* original content or its whole candidate content.
C10_KilledLeavesWholeFiles ==
    (pc = "killed" /\ ~dry_run) =>
        \A p \in DOMAIN disk :
            disk[p].data \in {snapshot[p].data, ExpectedContent(p)}

\* C10 as amended: when a real run is killed, a file not yet got to holds its
\* original content, a file whose write has finished holds its candidate
\* content, and only the file whose write was in progress may hold less: a
\* prefix of its candidate content, possibly empty.
C10_KilledLeavesPrefixAtWorst ==
    (pc = "killed" /\ ~dry_run) =>
        \A p \in DOMAIN disk :
            /\ p \notin visited => disk[p].data = snapshot[p].data
            /\ IF cur # NoCur /\ cur.path = p
               THEN IsPrefix(disk[p].data, ExpectedContent(p))
               ELSE /\ disk[p].data \in {snapshot[p].data, ExpectedContent(p)}
                    /\ p \in written => disk[p].data = ExpectedContent(p)

C10_Witness ==
    /\ pc = "killed"
    /\ ~dry_run
    /\ cur # NoCur
    /\ Len(disk[cur.path].data) > 0
    /\ Len(disk[cur.path].data) < Len(cur.data)
    /\ \E p \in written \ {cur.path} :
        /\ disk[p].data = ExpectedContent(p)
        /\ disk[p].data # snapshot[p].data

====
